---- MODULE Spec2Model ----
(***************************************************************************)
(* State-machine model of the biomed-troubleshooter diagnostic pipeline.   *)
(*                                                                         *)
(*   src/src/application/agent.py       pipeline nodes, build_graph,       *)
(*                                      run_diagnostic                     *)
(*   src/src/studio/langgraph_studio.py create_diagnostic_graph            *)
(*   src/src/domain/models.py           SignalInterpreter, FaultMatcher,   *)
(*                                      HypothesisGenerator,               *)
(*                                      RecommendationGenerator            *)
(*   src/src/infrastructure/equipment_config.py  ThresholdConfig,          *)
(*                                      FaultConfig, EquipmentConfig,      *)
(*                                      EquipmentConfigLoader              *)
(*   src/src/infrastructure/rag_repository.py    evidence retrieval        *)
(*   src/src/infrastructure/langsmith_client.py  the global tracing client *)
(*                                                                         *)
(* Conventions.                                                            *)
(*  - A Python Optional is a sequence of length 0 (None / key absent) or 1.*)
(*  - Measured values are integers (volts); a confidence is a percentage   *)
(*    (0.8 is 80).                                                         *)
(*  - Names are bound as application/agent.py uses them: the keyword       *)
(*    thresholds= of line 189 is the interpreter's threshold_configs, the  *)
(*    attribute semantic_state of line 198 is SignalState.state, and       *)
(*    .value of an enum-like constant is the constant's string.            *)
(*  - The graph framework runs the nodes in supersteps: every node a node  *)
(*    of the previous superstep has an edge to (a static edge, or the      *)
(*    target its conditional router returns) runs in the next one, all of  *)
(*    them on the state committed by the previous superstep; two nodes of  *)
(*    one superstep writing the same state key is an update conflict,      *)
(*    raised out of invoke; an exception of a node is raised out of invoke.*)
(*  - Specifications: Spec (a pipeline session), SpecThreshold            *)
(*    (get_state), SpecInterp (interpret), SpecDiagnosis (the fault        *)
(*    matcher, the hypothesis generator and the recommendation generator,  *)
(*    which no pipeline node calls, each called on its own), SpecLoader    *)
(*    (the configuration loader and its cache, called in turn),            *)
(*    SpecConcurrent (threads loading one equipment id at the same time,   *)
(*    one statement of get_equipment_config and load per step),            *)
(*    SpecRecommend (generate_recommendations on any AgentState) and       *)
(*    SpecSessions (two run_diagnostic calls interleaved in one process).  *)
(*  - DiagnosticRuleEngine.evaluate is imported by analyze_fault but its   *)
(*    code is not in the repository. In Spec it may return any             *)
(*    subsequence of the rules; in SpecSessions it is the deterministic    *)
(*    function the specification requires of a stage.                      *)
(***************************************************************************)
EXTENDS Integers, Sequences, FiniteSets, TLC

\* ------------------------------------------------------------------ bounds

\* Longest measurement list of a pipeline session.
MaxMeas == 2
\* Longest threshold state list of a ThresholdConfig.
MaxStates == 2
\* Largest measured value of the threshold check (values are 0..MaxValue).
MaxValue == 4
\* Longest measurement list handed to SignalInterpreter.interpret directly.
MaxSignals == 2
\* Most faults an equipment file declares in the fault-service check.
MaxFaults == 2
\* Most load and clear_cache calls made on the loader in the loader check.
MaxCalls == 3
\* Most threads calling get_equipment_config at the same time.
MaxThreads == 2

\* ------------------------------------------------------------- optionals

None == <<>>
Some(x) == <<x>>
IsNone(o) == Len(o) = 0
Get(o) == o[1]

SeqsUpTo(S, n) == UNION {[1..k -> S] : k \in 0..n}
Elems(s) == {s[i] : i \in 1..Len(s)}

\* --------------------------------------------------- ThresholdConfig

\* ThresholdState: name, min_value, max_value (description carries no logic).
ThresholdStateOf(name, lo, hi) == [name |-> name, min_value |-> lo, max_value |-> hi]

\* The loop body of ThresholdConfig.get_state for one state: the two
\* `continue` tests fail, so the state's name is returned.
StateAccepts(state, value) ==
    /\ ~(~IsNone(state.min_value) /\ value < Get(state.min_value))
    /\ ~(~IsNone(state.max_value) /\ value > Get(state.max_value))

RECURSIVE ScanStates(_, _, _)
ScanStates(states, value, i) ==
    IF i > Len(states) THEN None
    ELSE IF StateAccepts(states[i], value) THEN Some(states[i].name)
    ELSE ScanStates(states, value, i + 1)

\* A mutation of get_state: the scan keeps going and the last accepting
\* state wins.
RECURSIVE ScanStatesLast(_, _, _)
ScanStatesLast(states, value, i) ==
    IF i < 1 THEN None
    ELSE IF StateAccepts(states[i], value) THEN Some(states[i].name)
    ELSE ScanStatesLast(states, value, i - 1)

get_state_last_match(states, value) == ScanStatesLast(states, value, Len(states))

\* ThresholdConfig.get_state: states is the config's dict in insertion order.
get_state(states, value) == ScanStates(states, value, 1)

\* ------------------------------------------------- SignalInterpreter

\* Measurement (its TestPoint reduced to the id interpret reads).
MeasurementOf(tp, value, unit, nominal) ==
    [test_point |-> tp, value |-> value, unit |-> unit, nominal_value |-> nominal]

\* SignalInterpreter._calculate_deviation: a ThresholdConfig has no
\* nominal_value attribute, so the nominal is the measurement's. The quotient
\* ((value - nominal) / nominal) * 100 is kept exact as numerator and denominator.
calculate_deviation(measurement) ==
    IF IsNone(measurement.nominal_value) \/ Get(measurement.nominal_value) = 0
    THEN None
    ELSE Some([num |-> (measurement.value - Get(measurement.nominal_value)) * 100,
               den |-> Get(measurement.nominal_value)])

CriticalStates == {"missing", "shorted", "open_circuit"}
WarningStates == {"under_voltage", "over_voltage", "failed"}

\* One iteration of the loop of interpret: the state as get_state returned it
\* (None when no declared state accepts the value), "unknown" without a config.
RawState(threshold_configs, measurement) ==
    IF measurement.test_point \in DOMAIN threshold_configs
    THEN get_state(threshold_configs[measurement.test_point], measurement.value)
    ELSE Some("unknown")

SignalStateOf(threshold_configs, measurement) ==
    LET state == RawState(threshold_configs, measurement)
    IN [measurement |-> measurement,
        state |-> IF IsNone(state) THEN "unknown" ELSE Get(state),
        confidence |-> 100,
        deviation_percent |->
            IF measurement.test_point \in DOMAIN threshold_configs
            THEN calculate_deviation(measurement) ELSE None]

\* A mutation of the status decision: a warning state masks a critical one.
StatusOfFlagsWarningFirst(has_critical, has_warning) ==
    IF has_warning THEN "degraded"
    ELSE IF has_critical THEN "failed"
    ELSE "normal"

\* The status decision at the end of interpret.
StatusOfFlags(has_critical, has_warning) ==
    IF has_critical THEN "failed"
    ELSE IF has_warning THEN "degraded"
    ELSE "normal"

RECURSIVE InterpretLoop(_, _, _, _, _, _)
InterpretLoop(threshold_configs, measurements, i, states, has_critical, has_warning) ==
    IF i > Len(measurements)
    THEN [states |-> states, status |-> StatusOfFlags(has_critical, has_warning)]
    ELSE LET state == RawState(threshold_configs, measurements[i])
             crit == ~IsNone(state) /\ Get(state) \in CriticalStates
             warn == ~crit /\ ~IsNone(state) /\ Get(state) \in WarningStates
         IN InterpretLoop(threshold_configs, measurements, i + 1,
                          Append(states, SignalStateOf(threshold_configs, measurements[i])),
                          has_critical \/ crit, has_warning \/ warn)

\* A mutation of interpret: the states are kept per test point, so a second
\* measurement of a test point is not interpreted.
interpret_by_test_point(threshold_configs, measurements) ==
    LET first == {i \in 1..Len(measurements) :
                    \A j \in 1..(i - 1) :
                        measurements[j].test_point # measurements[i].test_point}
        Kept(m) == \E i \in first : measurements[i] = m
    IN InterpretLoop(threshold_configs, SelectSeq(measurements, Kept), 1, <<>>, FALSE, FALSE)

\* SignalInterpreter.interpret: (signal_states, overall_status).
interpret(threshold_configs, measurements) ==
    InterpretLoop(threshold_configs, measurements, 1, <<>>, FALSE, FALSE)

\* SignalState.is_anomaly
is_anomaly(signal_state) == signal_state.state # "normal"

\* ------------------------------------------------------ session inputs

EquipmentModels == {"", "PSU-X"}
PipelineMeasurements ==
    {MeasurementOf(tp, v, u, None) : tp \in {"TP1", "TP2"}, v \in {12, 14}, u \in {"V", ""}}

\* What the environment does to RAGRepository.initialize: the store opens,
\* chromadb is not installed (ImportError, turned into RuntimeError), or
\* opening the store raises anything else.
RagEnvs == {"ok", "not_installed", "init_fails"}
RulesFiles == {"present", "missing"}

RuleOf(id, model, cause, confidence, required) ==
    [rule_id |-> id, equipment_model |-> model, cause |-> cause,
     confidence |-> confidence, required_signals |-> required]

\* The content of static_rules.json when the file is present.
StaticRulesDoc ==
    << RuleOf("R1", "PSU-X", "Output voltage regulator failure", 90,
              << [test_point_id |-> "TP2", state |-> "over_voltage"] >>),
       RuleOf("R2", "PSU-X", "Open fuse or missing input", 60,
              << [test_point_id |-> "TP1", state |-> "unknown"] >>),
       RuleOf("R3", "OTHER", "Shorted rectifier", 40, << >>) >>

NoMatchCause == "No matching diagnostic rule - manual inspection required"

\* The keywords generate_recommendations looks for in cause.lower().
CauseWords(cause) ==
    CASE cause = "Output voltage regulator failure" -> {"output", "voltage"}
      [] cause = "Open fuse or missing input" -> {"open", "missing"}
      [] cause = "Shorted rectifier" -> {"short", "shorted"}
      [] OTHER -> {}

\* ----------------------------------------------------------- AgentState

EmptyResponse ==
    [error |-> None, message |-> None, diagnosis |-> None,
     recommendations |-> None, reasoning_chain |-> None, nodes_executed |-> None,
     session_id |-> None, processing_time_ms |-> None]

EmptyEvidence == [documents |-> <<>>, rules |-> <<>>, error |-> FALSE]

\* AgentState(...) as run_diagnostic and graph() construct it.
NewAgentState(equipment_model, measurements) ==
    [equipment_model |-> equipment_model,
     raw_measurements |-> measurements,
     is_valid |-> TRUE,
     validation_error |-> "",
     signal_states |-> <<>>,
     overall_status |-> "unknown",
     anomaly_count |-> 0,
     retrieved_evidence |-> EmptyEvidence,
     hypothesis |-> None,
     reasoning_chain |-> <<>>,
     recommendations |-> <<>>,
     response |-> EmptyResponse,
     session_id |-> "",
     processing_time_ms |-> 0,
     node_history |-> <<>>]

Returned(s) == [out |-> s, raised |-> FALSE]
Raised(s) == [out |-> s, raised |-> TRUE]

\* ---------------------------------------------------------------- nodes

\* A mutation of validate_input: the measurement list is not checked.
validate_input_no_measurement_check(state) ==
    LET s == [state EXCEPT !.node_history = Append(@, "validate_input")]
    IN IF s.equipment_model = ""
       THEN Returned([s EXCEPT !.is_valid = FALSE,
                               !.validation_error = "Equipment model is required"])
       ELSE Returned(s)

validate_input(state) ==
    LET s == [state EXCEPT !.node_history = Append(@, "validate_input")]
    IN IF s.equipment_model = ""
       THEN Returned([s EXCEPT !.is_valid = FALSE,
                               !.validation_error = "Equipment model is required"])
       ELSE IF Len(s.raw_measurements) = 0
       THEN Returned([s EXCEPT !.is_valid = FALSE,
                               !.validation_error = "At least one measurement is required"])
       ELSE Returned(s)

\* TestPoint.__post_init__ and Measurement.__post_init__ raise ValueError.
ConstructionRaises(m) == m.test_point = "" \/ m.unit = ""

SerializeSignalState(s) ==
    [test_point_id |-> s.measurement.test_point,
     value |-> s.measurement.value,
     unit |-> s.measurement.unit,
     semantic_state |-> s.state,
     confidence |-> s.confidence,
     deviation_percent |-> s.deviation_percent]

\* The interpreter is built with an empty threshold mapping (line 189).
interpret_signals(state) ==
    LET s == [state EXCEPT !.node_history = Append(@, "interpret_signals")]
        r == interpret(<<>>, s.raw_measurements)
    IN IF \E i \in 1..Len(s.raw_measurements) : ConstructionRaises(s.raw_measurements[i])
       THEN Raised(s)
       ELSE Returned([s EXCEPT
                !.signal_states = [i \in 1..Len(r.states) |-> SerializeSignalState(r.states[i])],
                !.overall_status = r.status,
                !.anomaly_count = Cardinality({i \in 1..Len(r.states) : is_anomaly(r.states[i])})])

\* StaticRuleRepository._matches_pattern
matches_pattern(rule, patterns) ==
    \A k \in 1..Len(rule.required_signals) :
        \E j \in 1..Len(patterns) :
            /\ patterns[j].test_point_id = rule.required_signals[k].test_point_id
            /\ patterns[j].state = rule.required_signals[k].state

\* StaticRuleRepository._load_rules / get_rules / find_matching_rules
find_matching_rules(rules_file, equipment_model, patterns) ==
    LET loaded == IF rules_file = "missing" THEN <<>> ELSE StaticRulesDoc
        OfModel(r) == r.equipment_model = equipment_model
        Matches(r) == matches_pattern(r, patterns)
    IN SelectSeq(SelectSeq(loaded, OfModel), Matches)

retrieve_evidence(state, rag_env, rules_file) ==
    LET s == [state EXCEPT !.node_history = Append(@, "retrieve_evidence")]
        patterns == [i \in 1..Len(s.signal_states) |->
                        [test_point_id |-> s.signal_states[i].test_point_id,
                         state |-> s.signal_states[i].semantic_state]]
    IN CASE rag_env = "not_installed" ->
                Returned([s EXCEPT !.retrieved_evidence =
                            [documents |-> <<>>, rules |-> <<>>, error |-> TRUE]])
         [] rag_env = "init_fails" -> Raised(s)
         [] OTHER ->
                Returned([s EXCEPT !.retrieved_evidence =
                            [documents |-> <<"doc">>,
                             rules |-> find_matching_rules(rules_file, s.equipment_model, patterns),
                             error |-> FALSE]])

\* Every subsequence of s, in order: what a rule engine whose code is not at
\* hand may return as the matched rules.
RECURSIVE SubSeqs(_)
SubSeqs(s) ==
    IF Len(s) = 0 THEN {<<>>}
    ELSE LET rest == SubSeqs(Tail(s))
         IN rest \cup {<<Head(s)>> \o t : t \in rest}

\* analyze_fault, given the rules DiagnosticRuleEngine.evaluate matched.
analyze_fault(state, matched) ==
    LET s == [state EXCEPT !.node_history = Append(@, "analyze_fault")]
        rules == s.retrieved_evidence.rules
        hypothesis ==
            IF Len(matched) > 0
            THEN [primary_cause |-> matched[1].cause,
                  confidence |-> matched[1].confidence,
                  supporting_evidence |-> Len(matched)]
            ELSE [primary_cause |-> NoMatchCause,
                  confidence |-> 0,
                  supporting_evidence |-> 0]
    IN Returned([s EXCEPT
            !.hypothesis = Some(hypothesis),
            !.reasoning_chain =
                << [step |-> 1, n_signals |-> Len(s.signal_states), status |-> s.overall_status],
                   [step |-> 2, n_rules |-> Len(rules), n_matched |-> Len(matched)] >>])

\* A mutation of the priority decision: the confidence thresholds are strict.
PriorityOfStrict(overall_status, confidence) ==
    IF overall_status = "failed" \/ confidence > 80 THEN "critical"
    ELSE IF overall_status = "degraded" \/ confidence > 50 THEN "high"
    ELSE "medium"

\* The priority decision of generate_recommendations (lines 369-374).
PriorityOf(overall_status, confidence) ==
    IF overall_status = "failed" \/ confidence >= 80 THEN "critical"
    ELSE IF overall_status = "degraded" \/ confidence >= 50 THEN "high"
    ELSE "medium"

\* The action and target decision of generate_recommendations (lines 379-390).
ActionTargetOf(cause) ==
    LET w == CauseWords(cause)
    IN IF "output" \in w /\ "voltage" \in w
       THEN [action |-> "replace", target |-> "Output capacitor or regulator"]
       ELSE IF "short" \in w \/ "shorted" \in w
       THEN [action |-> "inspect", target |-> "Shorted component"]
       ELSE IF "open" \in w \/ "missing" \in w
       THEN [action |-> "replace", target |-> "Failed component"]
       ELSE [action |-> "measure", target |-> "Suspicious test points"]

generate_recommendations(state) ==
    LET s == [state EXCEPT !.node_history = Append(@, "generate_recommendations")]
        confidence == IF IsNone(s.hypothesis) THEN 0 ELSE Get(s.hypothesis).confidence
        cause == IF IsNone(s.hypothesis) THEN "Unknown" ELSE Get(s.hypothesis).primary_cause
        at == ActionTargetOf(cause)
    IN Returned([s EXCEPT !.recommendations =
            << [action |-> at.action,
                priority |-> PriorityOf(s.overall_status, confidence),
                target |-> at.target,
                safety_warning |-> "Ensure power is disconnected before internal inspection"] >>])

\* A mutation of generate_response: the metadata depends on the session.
generate_response_session_metadata(state) ==
    LET s == [state EXCEPT !.node_history = Append(@, "generate_response")]
    IN Returned([s EXCEPT !.response =
            [error |-> None,
             message |-> None,
             diagnosis |-> Some(
                [primary_cause |-> IF IsNone(s.hypothesis) THEN "Unknown"
                                   ELSE Get(s.hypothesis).primary_cause,
                 confidence_score |-> IF IsNone(s.hypothesis) THEN 0
                                      ELSE Get(s.hypothesis).confidence,
                 matching_signals |-> s.signal_states]),
             recommendations |-> Some(s.recommendations),
             reasoning_chain |-> Some(s.reasoning_chain),
             nodes_executed |-> Some(Len(s.node_history)),
             session_id |-> Some(s.session_id),
             processing_time_ms |-> Some(IF s.session_id = "A" THEN 0 ELSE 1)]])

\* generate_response: the timestamp is left out; processing_time_ms is read
\* from the state, where it still has its default (run_diagnostic sets it
\* after invoke has returned, line 603).
generate_response(state) ==
    LET s == [state EXCEPT !.node_history = Append(@, "generate_response")]
    IN Returned([s EXCEPT !.response =
            [error |-> None,
             message |-> None,
             diagnosis |-> Some(
                [primary_cause |-> IF IsNone(s.hypothesis) THEN "Unknown"
                                   ELSE Get(s.hypothesis).primary_cause,
                 confidence_score |-> IF IsNone(s.hypothesis) THEN 0
                                      ELSE Get(s.hypothesis).confidence,
                 matching_signals |-> s.signal_states]),
             recommendations |-> Some(s.recommendations),
             reasoning_chain |-> Some(s.reasoning_chain),
             nodes_executed |-> Some(Len(s.node_history)),
             session_id |-> Some(s.session_id),
             processing_time_ms |-> Some(s.processing_time_ms)]])

return_error(state) ==
    LET s == [state EXCEPT !.node_history = Append(@, "return_error")]
    IN Returned([s EXCEPT !.response =
            [EmptyResponse EXCEPT
                !.error = Some(TRUE),
                !.session_id = Some(s.session_id),
                !.message = Some(IF s.validation_error # "" THEN s.validation_error
                                 ELSE "Validation failed")]])

\* ---------------------------------------------------------------- graphs

Graphs == {"build_graph", "create_diagnostic_graph"}
END == "__end__"

PipelineEdges ==
    { <<"validate_input", "interpret_signals">>,
      <<"interpret_signals", "retrieve_evidence">>,
      <<"retrieve_evidence", "analyze_fault">>,
      <<"analyze_fault", "generate_recommendations">>,
      <<"generate_recommendations", "generate_response">> }

\* A mutation of the graph: the evidence stage is not wired in.
StaticEdgesSkip(graph) ==
    (PipelineEdges \ { <<"interpret_signals", "retrieve_evidence">>,
                       <<"retrieve_evidence", "analyze_fault">> })
        \cup { <<"interpret_signals", "analyze_fault">> }

\* builder.add_edge(...) of build_graph (lines 490-495) and of
\* create_diagnostic_graph (lines 47-51).
StaticEdges(graph) ==
    IF graph = "build_graph"
    THEN PipelineEdges \cup { <<"generate_response", END>> }
    ELSE PipelineEdges

\* route_validation, the conditional edge of validate_input in build_graph.
route_validation(state) ==
    IF state.is_valid THEN "interpret_signals" ELSE "return_error"

\* The nodes triggered by a node that has just written state.
NextTasks(graph, node, state) ==
    ({ e[2] : e \in { d \in StaticEdges(graph) : d[1] = node } }
        \cup (IF graph = "build_graph" /\ node = "validate_input"
              THEN {route_validation(state)} ELSE {}))
    \ {END}

\* -------------------------------------------------------- fault services

\* The fault configs are a dict keyed by fault_id, in the order the equipment
\* file declares them: a sequence of faults with distinct ids. A signature
\* assertion is a raw dict: its "state" key may be absent (None).
AssertionOf(signal_id, state) == [signal_id |-> signal_id, state |-> state]
HypothesisOf(rank, confidence, cause) ==
    [rank |-> rank, confidence |-> confidence, cause |-> cause]
StepOf(action, target, instruction, safety) ==
    [action |-> action, target |-> target, instruction |-> instruction, safety |-> safety]
FaultOf(fault_id, description, signatures, hypotheses, recovery) ==
    [fault_id |-> fault_id, description |-> description, signatures |-> signatures,
     hypotheses |-> hypotheses, recovery |-> recovery]

\* signal_states.get(signal_id): None for a signal that was not observed.
Observed(signal_states, signal_id) ==
    IF signal_id \in DOMAIN signal_states THEN Some(signal_states[signal_id]) ELSE None

\* FaultMatcher._matches_fault: no assertion whose observed state differs.
matches_fault(fault, signal_states) ==
    \A k \in 1..Len(fault.signatures) :
        ~(Observed(signal_states, fault.signatures[k].signal_id) # fault.signatures[k].state)

RECURSIVE ScanFaults(_, _, _)
ScanFaults(fault_configs, signal_states, i) ==
    IF i > Len(fault_configs) THEN None
    ELSE IF matches_fault(fault_configs[i], signal_states) THEN Some(fault_configs[i])
    ELSE ScanFaults(fault_configs, signal_states, i + 1)

RECURSIVE ScanFaultsLast(_, _, _)
ScanFaultsLast(fault_configs, signal_states, i) ==
    IF i < 1 THEN None
    ELSE IF matches_fault(fault_configs[i], signal_states) THEN Some(fault_configs[i])
    ELSE ScanFaultsLast(fault_configs, signal_states, i - 1)

\* A mutation of find_matching_fault: the last matching fault is returned.
find_matching_fault_last(fault_configs, signal_states) ==
    ScanFaultsLast(fault_configs, signal_states, Len(fault_configs))

\* FaultMatcher.find_matching_fault: the first fault that matches, or None.
find_matching_fault(fault_configs, signal_states) ==
    ScanFaults(fault_configs, signal_states, 1)

\* EquipmentConfig._matches_fault
config_matches_fault(fault, signal_states) ==
    \A k \in 1..Len(fault.signatures) :
        ~(Observed(signal_states, fault.signatures[k].signal_id) # fault.signatures[k].state)

RECURSIVE ScanConfigFaults(_, _, _)
ScanConfigFaults(faults, signal_states, i) ==
    IF i > Len(faults) THEN None
    ELSE IF config_matches_fault(faults[i], signal_states) THEN Some(faults[i])
    ELSE ScanConfigFaults(faults, signal_states, i + 1)

\* EquipmentConfig.find_fault
find_fault(faults, signal_states) == ScanConfigFaults(faults, signal_states, 1)

\* min(hypotheses, key=rank): the index of the first hypothesis of least rank.
RECURSIVE MinByRank(_, _, _)
MinByRank(hypotheses, i, best) ==
    IF i > Len(hypotheses) THEN best
    ELSE MinByRank(hypotheses, i + 1,
                   IF hypotheses[i].rank < hypotheses[best].rank THEN i ELSE best)

\* FaultConfig.get_best_hypothesis
get_best_hypothesis(fault) ==
    IF Len(fault.hypotheses) = 0 THEN None
    ELSE Some(fault.hypotheses[MinByRank(fault.hypotheses, 2, 1)])

\* A mutation of the no-match branch of HypothesisGenerator.generate: the
\* unknown-cause hypothesis is given the default confidence of a fault.
NoMatchHypothesisHalf ==
    [cause |-> "Unknown - no matching fault pattern", confidence |-> 50, fault_id |-> None]

\* The no-match branch of HypothesisGenerator.generate (lines 413-422).
NoMatchHypothesis ==
    [cause |-> "Unknown - no matching fault pattern", confidence |-> 0, fault_id |-> None]

\* HypothesisGenerator.generate (the evidence list is passed through untouched).
generate_hypothesis(fault_configs, signal_states) ==
    LET fault == find_matching_fault(fault_configs, signal_states)
    IN IF IsNone(fault) THEN NoMatchHypothesis
       ELSE LET f == Get(fault)
            IN IF Len(f.hypotheses) = 0
               THEN [cause |-> f.description, confidence |-> 50,
                     fault_id |-> Some(f.fault_id)]
               ELSE LET best == f.hypotheses[MinByRank(f.hypotheses, 2, 1)]
                    IN [cause |-> best.cause, confidence |-> best.confidence,
                        fault_id |-> Some(f.fault_id)]

\* fault_configs.get(fault_id)
FaultById(fault_configs, fault_id) ==
    LET m == {i \in 1..Len(fault_configs) : Some(fault_configs[i].fault_id) = fault_id}
    IN IF m = {} THEN None ELSE Some(fault_configs[CHOOSE i \in m : TRUE])

\* One element of the list RecommendationGenerator.generate builds.
RecommendationOf(step) ==
    [action |-> IF IsNone(step.action) THEN "inspect" ELSE Get(step.action),
     target |-> step.target,
     instruction |-> step.instruction,
     safety_warning |-> step.safety]

\* A mutation of RecommendationGenerator.generate: the steps come out reversed.
generate_recommendations_reversed(fault_configs, fault_id) ==
    LET fault == FaultById(fault_configs, fault_id)
    IN IF IsNone(fault) THEN <<>>
       ELSE LET n == Len(Get(fault).recovery)
            IN [i \in 1..n |-> RecommendationOf(Get(fault).recovery[n + 1 - i])]

\* RecommendationGenerator.generate
generate_fault_recommendations(fault_configs, fault_id) ==
    LET fault == FaultById(fault_configs, fault_id)
    IN IF IsNone(fault) THEN <<>>
       ELSE [i \in 1..Len(Get(fault).recovery) |-> RecommendationOf(Get(fault).recovery[i])]

\* ------------------------------------------------ equipment config loader

\* What the file <config_dir>/<equipment_id>.yaml is: absent, present but not
\* a loadable document, or one of two well-formed contents.
DocContents == {"missing", "malformed", "v1", "v2"}
\* The equipment ids with a document slot in the config directory.
EquipmentIds == {"PSU-X", "CCTV"}

\* EquipmentConfig.from_file: yaml.safe_load or a from_dict raises on a
\* malformed document; otherwise a new EquipmentConfig object (obj is its
\* identity) holding what the document says.
from_file(doc, equipment_id, obj) ==
    IF doc = "malformed"
    THEN [raised |-> TRUE, config |-> None]
    ELSE [raised |-> FALSE,
          config |-> Some([equipment_id |-> equipment_id, version |-> doc, obj |-> obj])]

\* The result of a call of load: what it returned or raised, whether the
\* document was opened, and the loader's cache afterwards.
LoadResult(outcome, config, read, cache) ==
    [outcome |-> outcome, config |-> config, read |-> read, cache |-> cache]

\* self._cache[equipment_id] = config
CachePut(cache, equipment_id, config) ==
    [k \in DOMAIN cache \cup {equipment_id} |->
        IF k = equipment_id THEN config ELSE cache[k]]

\* A mutation of load: the cache is not consulted.
load_without_cache_check(cache, docs, equipment_id, obj) ==
    IF docs[equipment_id] = "missing"
    THEN LoadResult("FileNotFoundError", None, FALSE, cache)
    ELSE LET r == from_file(docs[equipment_id], equipment_id, obj)
         IN IF r.raised
            THEN LoadResult("ParseError", None, TRUE, cache)
            ELSE LoadResult("returned", r.config, TRUE,
                            CachePut(cache, equipment_id, Get(r.config)))

\* A mutation of load: the entry is reserved before the document is parsed.
load_reserving_entry(cache, docs, equipment_id, obj) ==
    IF equipment_id \in DOMAIN cache
    THEN LoadResult("returned", Some(cache[equipment_id]), FALSE, cache)
    ELSE IF docs[equipment_id] = "missing"
    THEN LoadResult("FileNotFoundError", None, FALSE, cache)
    ELSE LET r == from_file(docs[equipment_id], equipment_id, obj)
             reserved == [equipment_id |-> equipment_id, version |-> "", obj |-> obj]
         IN IF r.raised
            THEN LoadResult("ParseError", None, TRUE, CachePut(cache, equipment_id, reserved))
            ELSE LoadResult("returned", r.config, TRUE,
                            CachePut(cache, equipment_id, Get(r.config)))

\* EquipmentConfigLoader.load
load(cache, docs, equipment_id, obj) ==
    IF equipment_id \in DOMAIN cache
    THEN LoadResult("returned", Some(cache[equipment_id]), FALSE, cache)
    ELSE IF docs[equipment_id] = "missing"
    THEN LoadResult("FileNotFoundError", None, FALSE, cache)
    ELSE LET r == from_file(docs[equipment_id], equipment_id, obj)
         IN IF r.raised
            THEN LoadResult("ParseError", None, TRUE, cache)
            ELSE LoadResult("returned", r.config, TRUE,
                            CachePut(cache, equipment_id, Get(r.config)))

\* EquipmentConfigLoader.clear_cache
clear_cache(cache) == <<>>

\* ---------------------------------------------------------------- state

VARIABLES
    graph,        \* which graph the session runs
    rag_env,      \* the environment of the evidence store
    rules_file,   \* whether static_rules.json exists
    state,        \* the AgentState committed by the last superstep
    tasks,        \* nodes of the current superstep that have not run yet
    writes,       \* [node, out]: what the nodes of the current superstep returned
    executed,     \* every node execution of the session, in order
    outcome,      \* "idle", "running", "returned" or "raised"
    raised_by,    \* what raised: a node name or "InvalidUpdateError"
    delivered,    \* the response handed to the caller: None, or Some(response)
    th_states,    \* threshold check: the states of a ThresholdConfig
    th_value,     \* threshold check: the value
    th_returned,  \* threshold check: None, or Some(what get_state returned)
    int_cfgs,     \* interpreter check: threshold_configs (signal id -> states)
    int_meas,     \* interpreter check: the measurements
    int_out,      \* interpreter check: None, or Some(what interpret returned)
    dg_faults,    \* fault services: the fault configs, in declaration order
    dg_signals,   \* fault services: the observed signal_id -> state map
    dg_fault_id,  \* fault services: the fault_id given to RecommendationGenerator
    dg_matched,   \* None, or Some(what FaultMatcher.find_matching_fault returned)
    dg_found,     \* None, or Some(what EquipmentConfig.find_fault returned)
    dg_best,      \* None, or Some(what get_best_hypothesis of the found fault returned)
    dg_hypothesis,\* None, or Some(what HypothesisGenerator.generate returned)
    dg_recs,      \* None, or Some(what RecommendationGenerator.generate returned)
    ld_docs,      \* loader: equipment id -> what its document is
    ld_cache,     \* loader: self._cache, equipment id -> EquipmentConfig
    ld_parsed,    \* loader: equipment id -> documents parsed since the last clear
    ld_calls,     \* loader: the calls made so far, each [op, id, result]
    cc_docs,      \* concurrent load: equipment id -> what its document is
    cc_loader,    \* concurrent load: the module global _loader, None or Some(index)
    cc_caches,    \* concurrent load: the _cache of every loader created, by index
    cc_pc,        \* concurrent load: thread -> where it stands
    cc_local,     \* concurrent load: thread -> its local variables
    cc_objs,      \* concurrent load: EquipmentConfig objects built so far
    ls_global,    \* sessions: the module global _langsmith_client, None or Some(client)
    ls_pc,        \* sessions: session -> where its run_diagnostic stands
    ls_held,      \* sessions: session -> the client its run_diagnostic holds
    engine,       \* sessions: session -> which of the rules the rule engine matches
    b_state,      \* second session: its committed AgentState
    b_tasks,      \* second session: nodes of its current superstep still to run
    b_writes,     \* second session: what the nodes of its superstep returned
    b_executed,   \* second session: its node executions, in order
    b_outcome,    \* second session: "idle", "running", "returned" or "raised"
    b_delivered   \* second session: the response handed to its caller

pipeVars == <<graph, rag_env, rules_file, state, tasks, writes, executed,
              outcome, raised_by, delivered>>
thVars == <<th_states, th_value, th_returned>>
intVars == <<int_cfgs, int_meas, int_out>>
dgInputs == <<dg_faults, dg_signals, dg_fault_id>>
dgVars == <<dgInputs, dg_matched, dg_found, dg_best, dg_hypothesis, dg_recs>>
ldVars == <<ld_docs, ld_cache, ld_parsed, ld_calls>>
ccVars == <<cc_docs, cc_loader, cc_caches, cc_pc, cc_local, cc_objs>>
lsVars == <<ls_global, ls_pc, ls_held, engine>>
bVars == <<b_state, b_tasks, b_writes, b_executed, b_outcome, b_delivered>>
ssVars == <<lsVars, bVars>>
vars == <<pipeVars, thVars, intVars, dgVars, ldVars, ccVars, ssVars>>

\* Everything outside one group of variables.
notPipe == <<thVars, intVars, dgVars, ldVars, ccVars, ssVars>>
notTh == <<pipeVars, intVars, dgVars, ldVars, ccVars, ssVars>>
notInt == <<pipeVars, thVars, dgVars, ldVars, ccVars, ssVars>>
notDg == <<pipeVars, thVars, intVars, ldVars, ccVars, ssVars>>
notLd == <<pipeVars, thVars, intVars, dgVars, ccVars, ssVars>>
notCc == <<pipeVars, thVars, intVars, dgVars, ldVars, ssVars>>

PipeIdle ==
    /\ graph = "build_graph"
    /\ rag_env = "not_installed"
    /\ rules_file = "missing"
    /\ state = NewAgentState("", <<>>)
    /\ tasks = {}
    /\ writes = {}
    /\ executed = <<>>
    /\ outcome = "idle"
    /\ raised_by = ""
    /\ delivered = None

ThIdle == th_states = <<>> /\ th_value = 0 /\ th_returned = None
IntIdle == int_cfgs = <<>> /\ int_meas = <<>> /\ int_out = None
LdIdle == ld_docs = <<>> /\ ld_cache = <<>> /\ ld_parsed = <<>> /\ ld_calls = <<>>
CcIdle ==
    /\ cc_docs = <<>> /\ cc_loader = None /\ cc_caches = <<>>
    /\ cc_pc = <<>> /\ cc_local = <<>> /\ cc_objs = 0
SsIdle ==
    /\ ls_global = None /\ ls_pc = <<>> /\ ls_held = <<>> /\ engine = <<>>
    /\ b_state = NewAgentState("", <<>>)
    /\ b_tasks = {} /\ b_writes = {} /\ b_executed = <<>>
    /\ b_outcome = "idle" /\ b_delivered = None
DgIdle ==
    /\ dg_faults = <<>> /\ dg_signals = <<>> /\ dg_fault_id = None
    /\ dg_matched = None /\ dg_found = None /\ dg_best = None
    /\ dg_hypothesis = None /\ dg_recs = None

\* ------------------------------------------------------- pipeline session

\* run_diagnostic (build_graph) or graph() (create_diagnostic_graph) has
\* built the AgentState and called invoke: the entry node is scheduled.
\* A session is about to start. The equipment configuration documents on disk
\* (ld_docs) are part of its environment: present, missing or malformed. No
\* node of the pipeline reads them: interpret_signals builds its interpreter
\* with an empty threshold mapping (line 189) and the hypothesis comes from the
\* static rules.
Init ==
    /\ graph \in Graphs
    /\ rag_env \in RagEnvs
    /\ rules_file \in RulesFiles
    /\ \E em \in EquipmentModels, ms \in SeqsUpTo(PipelineMeasurements, MaxMeas) :
            state = NewAgentState(em, ms)
    /\ tasks = {"validate_input"}
    /\ writes = {}
    /\ executed = <<>>
    /\ outcome = "running"
    /\ raised_by = ""
    /\ delivered = None
    /\ ThIdle
    /\ IntIdle
    /\ DgIdle
    /\ \E d \in DocContents : ld_docs = [id \in EquipmentIds |-> d]
    /\ ld_cache = <<>>
    /\ ld_parsed = <<>>
    /\ ld_calls = <<>>
    /\ CcIdle
    /\ SsIdle

\* One node of the current superstep runs on the committed state.
RunNode(node, result) ==
    /\ outcome = "running"
    /\ node \in tasks
    /\ executed' = Append(executed, node)
    /\ tasks' = tasks \ {node}
    /\ IF result.raised
       THEN /\ outcome' = "raised"
            /\ raised_by' = node
            /\ UNCHANGED writes
       ELSE /\ writes' = writes \cup {[node |-> node, out |-> result.out]}
            /\ UNCHANGED <<outcome, raised_by>>
    /\ UNCHANGED <<graph, rag_env, rules_file, state, delivered, notPipe>>

ValidateInput == RunNode("validate_input", validate_input(state))
InterpretSignals == RunNode("interpret_signals", interpret_signals(state))
RetrieveEvidence == RunNode("retrieve_evidence", retrieve_evidence(state, rag_env, rules_file))
AnalyzeFault ==
    \E matched \in SubSeqs(state.retrieved_evidence.rules) :
        RunNode("analyze_fault", analyze_fault(state, matched))
GenerateRecommendations == RunNode("generate_recommendations", generate_recommendations(state))
GenerateResponse == RunNode("generate_response", generate_response(state))
ReturnError == RunNode("return_error", return_error(state))

\* The end of a superstep inside graph.invoke (line 600; line 91 of the studio
\* wrapper): the writes are applied, the next nodes are scheduled, and when
\* none is left invoke returns and the caller gets result.response (line 623).
\* Two writers of one superstep conflict; run_diagnostic re-raises (line 631).
Superstep ==
    /\ outcome = "running"
    /\ tasks = {}
    /\ writes # {}
    /\ IF Cardinality(writes) > 1
       THEN /\ outcome' = "raised"
            /\ raised_by' = "InvalidUpdateError"
            /\ UNCHANGED <<state, tasks, delivered>>
       ELSE LET w == CHOOSE x \in writes : TRUE
                next == NextTasks(graph, w.node, w.out)
            IN /\ state' = w.out
               /\ tasks' = next
               /\ IF next = {}
                  THEN outcome' = "returned" /\ delivered' = Some(w.out.response)
                  ELSE UNCHANGED <<outcome, delivered>>
               /\ UNCHANGED raised_by
    /\ writes' = {}
    /\ UNCHANGED <<graph, rag_env, rules_file, executed, notPipe>>

Next ==
    \/ ValidateInput
    \/ InterpretSignals
    \/ RetrieveEvidence
    \/ AnalyzeFault
    \/ GenerateRecommendations
    \/ GenerateResponse
    \/ ReturnError
    \/ Superstep

Spec == Init /\ [][Next]_vars

\* ------------------------------------------- threshold classification

ThresholdNames == {"normal", "over_voltage", "missing"}
BoundOptions == {None, Some(1), Some(3)}
ThresholdStateSet ==
    {ThresholdStateOf(n, lo, hi) : n \in ThresholdNames, lo \in BoundOptions, hi \in BoundOptions}

\* ThresholdConfig.states is a dict keyed by state name: names are distinct.
DistinctNames(s) == \A i, j \in 1..Len(s) : i # j => s[i].name # s[j].name

\* A ThresholdConfig for TP2 and one measurement of TP2.
InitThreshold ==
    /\ th_states \in {s \in SeqsUpTo(ThresholdStateSet, MaxStates) : DistinctNames(s)}
    /\ th_value \in 0..MaxValue
    /\ th_returned = None
    /\ int_cfgs = [tp \in {"TP2"} |-> th_states]
    /\ int_meas = <<MeasurementOf("TP2", th_value, "V", None)>>
    /\ int_out = None
    /\ PipeIdle
    /\ DgIdle
    /\ LdIdle
    /\ CcIdle
    /\ SsIdle

\* ThresholdConfig.get_state(value)
CallGetState ==
    /\ IsNone(th_returned)
    /\ th_returned' = Some(get_state(th_states, th_value))
    /\ UNCHANGED <<th_states, th_value, notTh>>

\* SignalInterpreter(threshold_configs).interpret(signals)
CallInterpret ==
    /\ IsNone(int_out)
    /\ int_out' = Some(interpret(int_cfgs, int_meas))
    /\ UNCHANGED <<int_cfgs, int_meas, notInt>>

NextThreshold == CallGetState \/ CallInterpret

SpecThreshold == InitThreshold /\ [][NextThreshold]_vars

\* ------------------------------------------------- interpreter on its own

\* The thresholds of an equipment whose signals reach every status class.
InterpKnowledge ==
    [tp \in {"TP1", "TP2"} |->
        IF tp = "TP1"
        THEN << ThresholdStateOf("missing", None, Some(0)),
                ThresholdStateOf("under_voltage", Some(1), Some(1)),
                ThresholdStateOf("normal", Some(2), Some(2)),
                ThresholdStateOf("over_voltage", Some(3), None) >>
        ELSE << ThresholdStateOf("shorted", None, Some(0)),
                ThresholdStateOf("failed", Some(2), Some(2)),
                ThresholdStateOf("open_circuit", Some(3), None) >>]

SignalMeasurements ==
    {MeasurementOf(tp, v, "V", nom) :
        tp \in {"TP1", "TP2", "TP3"}, v \in 0..3, nom \in {None, Some(0), Some(2)}}

InitInterp ==
    /\ int_cfgs = InterpKnowledge
    /\ int_meas \in SeqsUpTo(SignalMeasurements, MaxSignals)
    /\ int_out = None
    /\ ThIdle
    /\ PipeIdle
    /\ DgIdle
    /\ LdIdle
    /\ CcIdle
    /\ SsIdle

NextInterp == CallInterpret

SpecInterp == InitInterp /\ [][NextInterp]_vars

\* ------------------------------------------- fault services on their own

\* The faults an equipment file may declare.
FaultCatalog ==
    { FaultOf("F1", "Output over-voltage",
              << AssertionOf("TP2", Some("over_voltage")) >>,
              << HypothesisOf(1, 70, "Regulator drift"),
                 HypothesisOf(2, 70, "Feedback divider open") >>,
              << StepOf(Some("measure"), "TP2", "Measure the output rail", ""),
                 StepOf(Some("replace"), "U1", "Replace the regulator", "Disconnect power first") >>),
      FaultOf("F2", "Over-voltage with good input",
              << AssertionOf("TP2", Some("over_voltage")),
                 AssertionOf("TP1", Some("normal")) >>,
              << HypothesisOf(1, 70, "Reference shorted"),
                 HypothesisOf(3, 70, "Sense line open") >>,
              << StepOf(Some("inspect"), "D3", "Inspect the reference diode", "") >> ),
      FaultOf("F3", "Unspecified fault",
              << >>,
              << HypothesisOf(2, 50, "Unspecified cause") >>,
              << >>),
      FaultOf("F4", "Fan signal fault",
              << AssertionOf("TP3", None) >>,
              << >>,
              << StepOf(None, "Fan", "Check the fan connector", "") >>),
      FaultOf("F5", "Input present",
              << AssertionOf("TP1", Some("normal")) >>,
              << HypothesisOf(1, 40, "Aged capacitor"),
                 HypothesisOf(1, 90, "Load fault") >>,
              << StepOf(Some("replace"), "C5", "Replace the capacitor", "Discharge the capacitor") >>),
      FaultOf("F6", "Output high",
              << AssertionOf("TP2", Some("over_voltage")) >>,
              << HypothesisOf(2, 80, "Optocoupler degraded") >>,
              << StepOf(Some("replace"), "U2", "Replace the optocoupler", "Disconnect power first") >>) }

DistinctFaultIds(s) == \A i, j \in 1..Len(s) : i # j => s[i].fault_id # s[j].fault_id

\* The observed maps: any of the signals, each in one of two states.
SignalStateMaps ==
    UNION { [d -> {"normal", "over_voltage"}] : d \in SUBSET {"TP1", "TP2", "TP3"} }

InitDiagnosis ==
    /\ dg_faults \in {s \in SeqsUpTo(FaultCatalog, MaxFaults) : DistinctFaultIds(s)}
    /\ dg_signals \in SignalStateMaps
    /\ dg_fault_id \in {None, Some("F9")} \cup {Some(dg_faults[i].fault_id) : i \in 1..Len(dg_faults)}
    /\ dg_matched = None
    /\ dg_found = None
    /\ dg_best = None
    /\ dg_hypothesis = None
    /\ dg_recs = None
    /\ PipeIdle
    /\ ThIdle
    /\ IntIdle
    /\ LdIdle
    /\ CcIdle
    /\ SsIdle

\* FaultMatcher(fault_configs).find_matching_fault(signal_states)
CallFindMatchingFault ==
    /\ IsNone(dg_matched)
    /\ dg_matched' = Some(find_matching_fault(dg_faults, dg_signals))
    /\ UNCHANGED <<dgInputs, dg_found, dg_best, dg_hypothesis, dg_recs, notDg>>

\* EquipmentConfig.find_fault(signal_states)
CallFindFault ==
    /\ IsNone(dg_found)
    /\ dg_found' = Some(find_fault(dg_faults, dg_signals))
    /\ UNCHANGED <<dgInputs, dg_matched, dg_best, dg_hypothesis, dg_recs, notDg>>

\* FaultConfig.get_best_hypothesis() of the fault find_fault returned
CallGetBestHypothesis ==
    /\ ~IsNone(dg_found)
    /\ ~IsNone(Get(dg_found))
    /\ IsNone(dg_best)
    /\ dg_best' = Some(get_best_hypothesis(Get(Get(dg_found))))
    /\ UNCHANGED <<dgInputs, dg_matched, dg_found, dg_hypothesis, dg_recs, notDg>>

\* HypothesisGenerator(fault_configs).generate(equipment_id, signal_states, evidence)
CallGenerateHypothesis ==
    /\ IsNone(dg_hypothesis)
    /\ dg_hypothesis' = Some(generate_hypothesis(dg_faults, dg_signals))
    /\ UNCHANGED <<dgInputs, dg_matched, dg_found, dg_best, dg_recs, notDg>>

\* RecommendationGenerator(fault_configs).generate(fault_id, signal_states)
CallGenerateRecommendations ==
    /\ IsNone(dg_recs)
    /\ dg_recs' = Some(generate_fault_recommendations(dg_faults, dg_fault_id))
    /\ UNCHANGED <<dgInputs, dg_matched, dg_found, dg_best, dg_hypothesis, notDg>>

NextDiagnosis ==
    \/ CallFindMatchingFault
    \/ CallFindFault
    \/ CallGetBestHypothesis
    \/ CallGenerateHypothesis
    \/ CallGenerateRecommendations

SpecDiagnosis == InitDiagnosis /\ [][NextDiagnosis]_vars

\* ------------------------------------------- the loader, called in turn


\* A new EquipmentConfigLoader: its cache is empty. The documents are whatever
\* the config directory holds.
InitLoader ==
    /\ ld_docs \in [EquipmentIds -> DocContents]
    /\ ld_cache = <<>>
    /\ ld_parsed = [id \in EquipmentIds |-> 0]
    /\ ld_calls = <<>>
    /\ PipeIdle
    /\ ThIdle
    /\ IntIdle
    /\ DgIdle
    /\ CcIdle
    /\ SsIdle

\* loader.load(equipment_id), returning or raising
CallLoad ==
    \E id \in EquipmentIds :
        LET r == load(ld_cache, ld_docs, id, Len(ld_calls) + 1)
        IN /\ Len(ld_calls) < MaxCalls
           /\ ld_cache' = r.cache
           /\ ld_parsed' = [ld_parsed EXCEPT ![id] =
                                IF r.read /\ r.outcome = "returned" THEN @ + 1 ELSE @]
           /\ ld_calls' = Append(ld_calls,
                  [op |-> "load", id |-> id, doc |-> ld_docs[id], outcome |-> r.outcome,
                   config |-> r.config, read |-> r.read,
                   before |-> ld_cache, after |-> r.cache])
           /\ UNCHANGED <<ld_docs, notLd>>

\* loader.clear_cache()
CallClearCache ==
    /\ Len(ld_calls) < MaxCalls
    /\ ld_cache' = clear_cache(ld_cache)
    /\ ld_parsed' = [id \in EquipmentIds |-> 0]
    /\ ld_calls' = Append(ld_calls,
           [op |-> "clear_cache", id |-> "", doc |-> "", outcome |-> "returned",
            config |-> None, read |-> FALSE,
            before |-> ld_cache, after |-> clear_cache(ld_cache)])
    /\ UNCHANGED <<ld_docs, notLd>>

\* Somebody outside the program writes, replaces or removes a document.
WriteDocument ==
    \E id \in EquipmentIds, doc \in DocContents :
        /\ doc # ld_docs[id]
        /\ ld_docs' = [ld_docs EXCEPT ![id] = doc]
        /\ UNCHANGED <<ld_cache, ld_parsed, ld_calls, notLd>>

NextLoader == CallLoad \/ CallClearCache \/ WriteDocument

SpecLoader == InitLoader /\ [][NextLoader]_vars

\* ------------------------------ generate_recommendations on any AgentState

\* The values overall_status takes: the three interpret returns and the default.
OverallStatuses == {"normal", "degraded", "failed", "unknown"}

\* Confidences in percent, on both sides of the thresholds 0.5 and 0.8.
ConfidenceLevels == {0, 40, 49, 50, 51, 79, 80, 81, 100}

HypothesisCauses == {NoMatchCause, "Output voltage regulator failure"}

\* generate_recommendations is called on an AgentState that the four earlier
\* nodes have filled: any status, any hypothesis.
InitRecommend ==
    /\ graph = "build_graph"
    /\ rag_env = "ok"
    /\ rules_file = "present"
    /\ \E st \in OverallStatuses, c \in ConfidenceLevels, cause \in HypothesisCauses :
            state = [NewAgentState("PSU-X", <<MeasurementOf("TP1", 1, "V", None)>>) EXCEPT
                        !.overall_status = st,
                        !.hypothesis = Some([primary_cause |-> cause, confidence |-> c,
                                             supporting_evidence |-> 0]),
                        !.node_history = <<"validate_input", "interpret_signals",
                                           "retrieve_evidence", "analyze_fault">>]
    /\ tasks = {"generate_recommendations"}
    /\ writes = {}
    /\ executed = <<"validate_input", "interpret_signals", "retrieve_evidence", "analyze_fault">>
    /\ outcome = "running"
    /\ raised_by = ""
    /\ delivered = None
    /\ ThIdle
    /\ IntIdle
    /\ DgIdle
    /\ LdIdle
    /\ CcIdle
    /\ SsIdle

NextRecommend == GenerateRecommendations \/ GenerateResponse \/ Superstep

SpecRecommend == InitRecommend /\ [][NextRecommend]_vars

\* ------------------------------------------ two sessions at the same time

Sessions == {"A", "B"}

\* The measurement lists the two callers pass; the empty one is invalid.
SessionInputs ==
    {<<>>, <<MeasurementOf("TP1", 12, "V", None)>>, <<MeasurementOf("TP2", 14, "V", None)>>}

\* DiagnosticRuleEngine.evaluate, whose code is not in the repository, as the
\* specification describes the stages: a deterministic function of its
\* input. The function is fixed by the rules it accepts.
Evaluate(accepted, rules) ==
    LET Accepted(r) == r.rule_id \in accepted
    IN SelectSeq(rules, Accepted)

\* Two callers are about to enter run_diagnostic in the same process, each
\* with its own input, in one environment.
InitSessions ==
    /\ graph = "build_graph"
    /\ rag_env \in {"ok", "not_installed"}
    /\ rules_file \in RulesFiles
    /\ engine \in SUBSET {"R1", "R2"}
    /\ ls_global = None
    /\ ls_pc = [s \in Sessions |-> "configure"]
    /\ ls_held = [s \in Sessions |-> None]
    /\ \E ms \in SessionInputs :
            state = [NewAgentState("PSU-X", ms) EXCEPT !.session_id = "A"]
    /\ \E ms \in SessionInputs :
            b_state = [NewAgentState("PSU-X", ms) EXCEPT !.session_id = "B"]
    /\ tasks = {} /\ b_tasks = {}
    /\ writes = {} /\ b_writes = {}
    /\ executed = <<>> /\ b_executed = <<>>
    /\ outcome = "idle" /\ b_outcome = "idle"
    /\ raised_by = ""
    /\ delivered = None /\ b_delivered = None
    /\ ThIdle
    /\ IntIdle
    /\ DgIdle
    /\ LdIdle
    /\ CcIdle

\* initialize_observability() -> configure_langsmith: a new client is built
\* and assigned to the module global (langsmith_client.py:170-178).
ConfigureLangsmith(s) ==
    /\ ls_pc[s] = "configure"
    /\ ls_global' = Some(s)
    /\ ls_pc' = [ls_pc EXCEPT ![s] = "get_client"]
    /\ UNCHANGED <<ls_held, engine, bVars, pipeVars, thVars, intVars, dgVars, ldVars, ccVars>>

\* langsmith = get_langsmith_client(): the module global is read, and created
\* when it is None (langsmith_client.py:142-147).
GetLangsmithClient(s) ==
    /\ ls_pc[s] = "get_client"
    /\ ls_global' = IF IsNone(ls_global) THEN Some(s) ELSE ls_global
    /\ ls_held' = [ls_held EXCEPT ![s] = ls_global']
    /\ ls_pc' = [ls_pc EXCEPT ![s] = "invoke"]
    /\ UNCHANGED <<engine, bVars, pipeVars, thVars, intVars, dgVars, ldVars, ccVars>>

\* graph = compile_graph(); graph.invoke(state) of the first caller: a graph
\* and a checkpointer of its own, and the entry node is scheduled.
StartA ==
    /\ ls_pc["A"] = "invoke"
    /\ ls_pc' = [ls_pc EXCEPT !["A"] = "invoked"]
    /\ tasks' = {"validate_input"}
    /\ outcome' = "running"
    /\ UNCHANGED <<graph, rag_env, rules_file, state, writes, executed, raised_by, delivered,
                   ls_global, ls_held, engine, bVars, thVars, intVars, dgVars, ldVars, ccVars>>

\* The same for the second caller.
StartB ==
    /\ ls_pc["B"] = "invoke"
    /\ ls_pc' = [ls_pc EXCEPT !["B"] = "invoked"]
    /\ b_tasks' = {"validate_input"}
    /\ b_outcome' = "running"
    /\ UNCHANGED <<b_state, b_writes, b_executed, b_delivered,
                   ls_global, ls_held, engine, pipeVars, thVars, intVars, dgVars, ldVars, ccVars>>

\* analyze_fault of the first caller with the deterministic rule engine.
AnalyzeFaultA ==
    RunNode("analyze_fault",
            analyze_fault(state, Evaluate(engine, state.retrieved_evidence.rules)))

\* What a node of the second caller returns on its committed state.
NodeResultB(node) ==
    CASE node = "validate_input" -> validate_input(b_state)
      [] node = "interpret_signals" -> interpret_signals(b_state)
      [] node = "retrieve_evidence" -> retrieve_evidence(b_state, rag_env, rules_file)
      [] node = "analyze_fault" ->
            analyze_fault(b_state, Evaluate(engine, b_state.retrieved_evidence.rules))
      [] node = "generate_recommendations" -> generate_recommendations(b_state)
      [] node = "generate_response" -> generate_response(b_state)
      [] node = "return_error" -> return_error(b_state)

\* One node of the second caller's current superstep runs.
RunNodeB ==
    /\ b_outcome = "running"
    /\ \E node \in b_tasks :
          LET result == NodeResultB(node)
          IN /\ b_executed' = Append(b_executed, node)
             /\ b_tasks' = b_tasks \ {node}
             /\ IF result.raised
                THEN b_outcome' = "raised" /\ UNCHANGED b_writes
                ELSE /\ b_writes' = b_writes \cup {[node |-> node, out |-> result.out]}
                     /\ UNCHANGED b_outcome
    /\ UNCHANGED <<b_state, b_delivered, lsVars, pipeVars, thVars, intVars, dgVars, ldVars, ccVars>>

\* The end of a superstep of the second caller.
SuperstepB ==
    /\ b_outcome = "running"
    /\ b_tasks = {}
    /\ b_writes # {}
    /\ IF Cardinality(b_writes) > 1
       THEN /\ b_outcome' = "raised"
            /\ UNCHANGED <<b_state, b_tasks, b_delivered>>
       ELSE LET w == CHOOSE x \in b_writes : TRUE
                next == NextTasks(graph, w.node, w.out)
            IN /\ b_state' = w.out
               /\ b_tasks' = next
               /\ IF next = {}
                  THEN b_outcome' = "returned" /\ b_delivered' = Some(w.out.response)
                  ELSE UNCHANGED <<b_outcome, b_delivered>>
    /\ b_writes' = {}
    /\ UNCHANGED <<b_executed, lsVars, pipeVars, thVars, intVars, dgVars, ldVars, ccVars>>

NextSessions ==
    \/ \E s \in Sessions : ConfigureLangsmith(s)
    \/ \E s \in Sessions : GetLangsmithClient(s)
    \/ StartA
    \/ StartB
    \/ ValidateInput
    \/ InterpretSignals
    \/ RetrieveEvidence
    \/ AnalyzeFaultA
    \/ GenerateRecommendations
    \/ GenerateResponse
    \/ ReturnError
    \/ Superstep
    \/ RunNodeB
    \/ SuperstepB

SpecSessions == InitSessions /\ [][NextSessions]_vars

\* ---------------------------------- the loader, called by several threads

Threads == 1..MaxThreads

\* The id all the threads ask for.
SharedId == "PSU-X"

\* The local variable config of load before line 336 has assigned it.
NoConfig == [equipment_id |-> "", version |-> "", obj |-> 0]

\* A mutation of the statement order of load: the cache entry is written
\* before the document is parsed.
LoadFlowStoreFirst(pc) ==
    CASE pc = "exists" -> "store"
      [] pc = "store" -> "parse"
      [] pc = "parse" -> "return"

\* The statement order of load after a cache miss (lines 332-341).
LoadFlow(pc) ==
    CASE pc = "exists" -> "parse"
      [] pc = "parse" -> "store"
      [] pc = "store" -> "return"

\* Every thread is about to call get_equipment_config(SharedId). The module
\* global _loader is still None, or an earlier call has created the loader.
InitConcurrent ==
    /\ cc_docs \in [{SharedId} -> DocContents]
    /\ \/ cc_loader = None /\ cc_caches = <<>>
       \/ cc_loader = Some(1) /\ cc_caches = << <<>> >>
    /\ cc_pc = [t \in Threads |-> "check_global"]
    /\ cc_local = [t \in Threads |-> [loader |-> 0, config |-> NoConfig, outcome |-> ""]]
    /\ cc_objs = 0
    /\ PipeIdle
    /\ ThIdle
    /\ IntIdle
    /\ DgIdle
    /\ LdIdle
    /\ SsIdle

\* if _loader is None (line 363)
CheckGlobal(t) ==
    /\ cc_pc[t] = "check_global"
    /\ cc_pc' = [cc_pc EXCEPT ![t] = IF IsNone(cc_loader) THEN "make_loader" ELSE "read_global"]
    /\ UNCHANGED <<cc_docs, cc_loader, cc_caches, cc_local, cc_objs, notCc>>

\* _loader = EquipmentConfigLoader() (line 364)
MakeLoader(t) ==
    /\ cc_pc[t] = "make_loader"
    /\ cc_caches' = Append(cc_caches, <<>>)
    /\ cc_loader' = Some(Len(cc_caches) + 1)
    /\ cc_pc' = [cc_pc EXCEPT ![t] = "read_global"]
    /\ UNCHANGED <<cc_docs, cc_local, cc_objs, notCc>>

\* _loader.load(equipment_id): the global is read and load is entered (line 365)
ReadGlobal(t) ==
    /\ cc_pc[t] = "read_global"
    /\ cc_local' = [cc_local EXCEPT ![t].loader = Get(cc_loader)]
    /\ cc_pc' = [cc_pc EXCEPT ![t] = "cache_check"]
    /\ UNCHANGED <<cc_docs, cc_loader, cc_caches, cc_objs, notCc>>

\* if equipment_id in self._cache (line 328)
CacheCheck(t) ==
    /\ cc_pc[t] = "cache_check"
    /\ cc_pc' = [cc_pc EXCEPT ![t] =
                    IF SharedId \in DOMAIN cc_caches[cc_local[t].loader]
                    THEN "cache_get" ELSE "exists"]
    /\ UNCHANGED <<cc_docs, cc_loader, cc_caches, cc_local, cc_objs, notCc>>

\* return self._cache[equipment_id] (line 329)
CacheGet(t) ==
    /\ cc_pc[t] = "cache_get"
    /\ LET cache == cc_caches[cc_local[t].loader]
       IN cc_local' = [cc_local EXCEPT ![t] =
                IF SharedId \in DOMAIN cache
                THEN [@ EXCEPT !.config = cache[SharedId], !.outcome = "returned"]
                ELSE [@ EXCEPT !.outcome = "KeyError"]]
    /\ cc_pc' = [cc_pc EXCEPT ![t] = "done"]
    /\ UNCHANGED <<cc_docs, cc_loader, cc_caches, cc_objs, notCc>>

\* if not file_path.exists(): raise FileNotFoundError (lines 332-334)
Exists(t) ==
    /\ cc_pc[t] = "exists"
    /\ IF cc_docs[SharedId] = "missing"
       THEN /\ cc_local' = [cc_local EXCEPT ![t].outcome = "FileNotFoundError"]
            /\ cc_pc' = [cc_pc EXCEPT ![t] = "done"]
       ELSE /\ cc_pc' = [cc_pc EXCEPT ![t] = LoadFlow("exists")]
            /\ UNCHANGED cc_local
    /\ UNCHANGED <<cc_docs, cc_loader, cc_caches, cc_objs, notCc>>

\* config = EquipmentConfig.from_file(str(file_path)) (line 336)
Parse(t) ==
    /\ cc_pc[t] = "parse"
    /\ LET r == from_file(cc_docs[SharedId], SharedId, cc_objs + 1)
       IN IF r.raised
          THEN /\ cc_local' = [cc_local EXCEPT ![t].outcome = "ParseError"]
               /\ cc_pc' = [cc_pc EXCEPT ![t] = "done"]
               /\ UNCHANGED cc_objs
          ELSE /\ cc_local' = [cc_local EXCEPT ![t].config = Get(r.config)]
               /\ cc_pc' = [cc_pc EXCEPT ![t] = LoadFlow("parse")]
               /\ cc_objs' = cc_objs + 1
    /\ UNCHANGED <<cc_docs, cc_loader, cc_caches, notCc>>

\* self._cache[equipment_id] = config (line 339)
Store(t) ==
    /\ cc_pc[t] = "store"
    /\ cc_caches' = [cc_caches EXCEPT ![cc_local[t].loader] =
                        CachePut(@, SharedId, cc_local[t].config)]
    /\ cc_pc' = [cc_pc EXCEPT ![t] = LoadFlow("store")]
    /\ UNCHANGED <<cc_docs, cc_loader, cc_local, cc_objs, notCc>>

\* return config (line 341)
Return(t) ==
    /\ cc_pc[t] = "return"
    /\ cc_local' = [cc_local EXCEPT ![t].outcome = "returned"]
    /\ cc_pc' = [cc_pc EXCEPT ![t] = "done"]
    /\ UNCHANGED <<cc_docs, cc_loader, cc_caches, cc_objs, notCc>>

NextConcurrent ==
    \/ \E t \in Threads : CheckGlobal(t)
    \/ \E t \in Threads : MakeLoader(t)
    \/ \E t \in Threads : ReadGlobal(t)
    \/ \E t \in Threads : CacheCheck(t)
    \/ \E t \in Threads : CacheGet(t)
    \/ \E t \in Threads : Exists(t)
    \/ \E t \in Threads : Parse(t)
    \/ \E t \in Threads : Store(t)
    \/ \E t \in Threads : Return(t)

SpecConcurrent == InitConcurrent /\ [][NextConcurrent]_vars

\* ================================================================ claims

ValidInput == state.equipment_model # "" /\ Len(state.raw_measurements) > 0
Finished == outcome \in {"returned", "raised"}

HasDiagnosticContent(r) ==
    ~IsNone(r.diagnosis) \/ ~IsNone(r.recommendations) \/ ~IsNone(r.reasoning_chain)
IsErrorObject(r) ==
    r.error = Some(TRUE) /\ ~IsNone(r.message) /\ ~HasDiagnosticContent(r)
IsFullReport(r) ==
    /\ IsNone(r.error) /\ IsNone(r.message)
    /\ ~IsNone(r.diagnosis) /\ ~IsNone(r.recommendations)
    /\ Len(Get(r.recommendations)) > 0

\* C1: with an empty equipment_model or an empty measurement list, no stage
\* other than validate_input and return_error is ever executed, in either graph.
C1_ValidationGatesPipeline ==
    ~ValidInput => Elems(executed) \subseteq {"validate_input", "return_error"}

\* C2: every finished session has delivered exactly one of a full report, a
\* validation-error object or an internal-error object to the caller: a
\* session that returned delivers a full report or an error object, never a
\* mix, and a session in which something raised delivers an error object.
C2_ExactlyOneOutcome ==
    Finished =>
        /\ ~IsNone(delivered)
        /\ IsFullReport(Get(delivered)) # IsErrorObject(Get(delivered))
        /\ (outcome = "raised" => IsErrorObject(Get(delivered)))

\* C3: when a stage raises, the stage that raised is the last one executed and
\* the caller receives an error object with no signal states, hypothesis or
\* recommendations in it.
C3_StageFailureSurfacesInternalError ==
    (outcome = "raised" /\ raised_by # "InvalidUpdateError") =>
        /\ executed[Len(executed)] = raised_by
        /\ ~IsNone(delivered)
        /\ Get(delivered).error = Some(TRUE)
        /\ ~HasDiagnosticContent(Get(delivered))

\* C4: for invalid input the finished session has delivered a validation-error
\* object carrying the validation message and no diagnostic content, and its
\* stage history is the validation stage alone.
C4_InvalidInputResponse ==
    (Finished /\ ~ValidInput) =>
        /\ ~IsNone(delivered)
        /\ IsErrorObject(Get(delivered))
        /\ Get(delivered).message \in {Some("Equipment model is required"),
                                       Some("At least one measurement is required")}
        /\ state.node_history = <<"validate_input">>

\* The states validate_input has produced: what it returned in the current
\* superstep, and the committed state from then on.
ValidatedStates ==
    {w.out : w \in {x \in writes : x.node = "validate_input"}}
        \cup (IF Len(state.node_history) > 0 THEN {state} ELSE {})

\* C5: after validate_input, is_valid holds iff equipment_model is non-empty
\* and there is at least one measurement; otherwise validation_error is
\* 'Equipment model is required' when the model is empty (whatever the
\* measurement list) and 'At least one measurement is required' otherwise.
C5_ValidationRule ==
    \A s \in ValidatedStates :
        /\ s.is_valid <=> (s.equipment_model # "" /\ Len(s.raw_measurements) >= 1)
        /\ (s.equipment_model = "" => s.validation_error = "Equipment model is required")
        /\ (s.equipment_model # "" /\ Len(s.raw_measurements) = 0
                => s.validation_error = "At least one measurement is required")
        /\ (~s.is_valid => s.validation_error # "")

\* C5 witness: validate_input has run on an input with neither a model nor a
\* measurement, and reported the missing model.
C5_Witness ==
    /\ Len(state.node_history) > 0
    /\ state.equipment_model = "" /\ Len(state.raw_measurements) = 0
    /\ ~state.is_valid /\ state.validation_error = "Equipment model is required"

IsPrefix(s, t) == Len(s) <= Len(t) /\ \A i \in 1..Len(s) : s[i] = t[i]

StageOrder ==
    <<"validate_input", "interpret_signals", "retrieve_evidence",
      "analyze_fault", "generate_recommendations", "generate_response">>

\* C6: for valid input the execution history only grows by appending, and a
\* session that has returned (no stage raised) has executed, and lists in its
\* history, the six stages in the declared order, each exactly once.
C6_HistoryAppendOnlyInOrder ==
    /\ [][ValidInput => IsPrefix(state.node_history, state'.node_history)]_vars
    /\ []((ValidInput /\ outcome = "returned")
            => state.node_history = StageOrder /\ executed = StageOrder)

\* C6 witness: a valid session has returned with all six stages in its history.
C6_Witness ==
    ValidInput /\ outcome = "returned" /\ Len(state.node_history) = 6

\* The claim's reading of a range: min and max are bounds that contain the
\* value, and a missing bound does not constrain it.
InBounds(st, v) ==
    /\ (IsNone(st.min_value) \/ Get(st.min_value) <= v)
    /\ (IsNone(st.max_value) \/ v <= Get(st.max_value))

Containing(states, v) == {i \in 1..Len(states) : InBounds(states[i], v)}
Least(S) == CHOOSE i \in S : \A j \in S : i <= j

\* C7: get_state returns the name of the earliest declared state whose bounds
\* contain the value, and None when no state does, which the interpreter
\* reports as "unknown".
C7_FirstDeclaredMatch ==
    LET c == Containing(th_states, th_value)
    IN /\ (~IsNone(th_returned) =>
             Get(th_returned) = IF c = {} THEN None ELSE Some(th_states[Least(c)].name))
       /\ (~IsNone(int_out) /\ Len(int_meas) = 1 /\ int_cfgs = [tp \in {"TP2"} |-> th_states] =>
             Get(int_out).states[1].state =
                IF c = {} THEN "unknown" ELSE th_states[Least(c)].name)

\* C7 witness: two declared states contain the value and get_state has
\* returned the first one's name.
C7_Witness ==
    /\ Len(th_states) = 2
    /\ Containing(th_states, th_value) = {1, 2}
    /\ th_returned = Some(Some(th_states[1].name))
    /\ ~IsNone(int_out)

\* C8: a state's range is half-open: the only state of a list is selected for
\* a value equal to its min (below its max), and no state is ever selected
\* for a value equal to its max.
C8_HalfOpenRange ==
    ~IsNone(th_returned) =>
        /\ \A i \in 1..Len(th_states) :
              (~IsNone(th_states[i].max_value) /\ th_value = Get(th_states[i].max_value))
                  => Get(th_returned) # Some(th_states[i].name)
        /\ (Len(th_states) = 1 /\ th_states[1].min_value = Some(th_value)
                /\ (IsNone(th_states[1].max_value) \/ th_value < Get(th_states[1].max_value))
              => Get(th_returned) = Some(th_states[1].name))

\* C9: in a session for PSU-X with the single measurement TP2, the Interpret
\* stage reports 12 as "normal" with status "normal" and 14 as "over_voltage"
\* with status "degraded".
C9_PsuXScenario ==
    \A w \in {x \in writes : x.node = "interpret_signals"} :
        (w.out.equipment_model = "PSU-X" /\ Len(w.out.raw_measurements) = 1
            /\ w.out.raw_measurements[1].test_point = "TP2") =>
            /\ (w.out.raw_measurements[1].value = 12 =>
                    /\ w.out.signal_states[1].semantic_state = "normal"
                    /\ w.out.overall_status = "normal")
            /\ (w.out.raw_measurements[1].value = 14 =>
                    /\ w.out.signal_states[1].semantic_state = "over_voltage"
                    /\ w.out.overall_status = "degraded")

Perms(n) == {f \in [1..n -> 1..n] : \A i, j \in 1..n : f[i] = f[j] => i = j}
Permute(s, f) == [i \in 1..Len(s) |-> s[f[i]]]

StatusOfNames(names) ==
    IF names \cap {"missing", "shorted", "open_circuit"} # {} THEN "failed"
    ELSE IF names \cap {"under_voltage", "over_voltage", "failed"} # {} THEN "degraded"
    ELSE "normal"

\* C10: the overall status interpret returns is "failed" if any interpreted
\* state is missing, shorted or open_circuit, else "degraded" if any is
\* under_voltage, over_voltage or failed, else "normal"; and interpreting the
\* same measurements in any other order gives the same status.
C10_OverallStatus ==
    ~IsNone(int_out) =>
        LET out == Get(int_out)
        IN /\ out.status = StatusOfNames({out.states[i].state : i \in 1..Len(out.states)})
           /\ \A f \in Perms(Len(int_meas)) :
                 interpret(int_cfgs, Permute(int_meas, f)).status = out.status

\* C10 witness: a warning state was interpreted before a critical one and the
\* status is "failed".
C10_Witness ==
    /\ ~IsNone(int_out)
    /\ Len(int_meas) = 2
    /\ Get(int_out).states[1].state = "over_voltage"
    /\ Get(int_out).states[2].state = "shorted"
    /\ Get(int_out).status = "failed"

\* The state names a threshold config declares for a test point.
DeclaredNames(threshold_configs, tp) ==
    IF tp \in DOMAIN threshold_configs
    THEN {threshold_configs[tp][k].name : k \in 1..Len(threshold_configs[tp])}
    ELSE {}

\* C11: interpret returns exactly one SignalState per input measurement, in
\* input order, also when two measurements share a test-point id, and each
\* state name is declared in that test point's threshold config or is "unknown".
C11_OneStatePerMeasurement ==
    ~IsNone(int_out) =>
        LET states == Get(int_out).states
        IN /\ Len(states) = Len(int_meas)
           /\ \A i \in 1..Len(states) :
                 /\ states[i].measurement = int_meas[i]
                 /\ states[i].state \in
                        DeclaredNames(int_cfgs, int_meas[i].test_point) \cup {"unknown"}
                 /\ states[i].state = SignalStateOf(int_cfgs, int_meas[i]).state

\* C11 witness: two measurements of the same test point were interpreted to
\* two different declared states, in input order.
C11_Witness ==
    /\ ~IsNone(int_out)
    /\ Len(int_meas) = 2
    /\ int_meas[1].test_point = int_meas[2].test_point
    /\ Len(Get(int_out).states) = 2
    /\ Get(int_out).states[1].state = "over_voltage"
    /\ Get(int_out).states[2].state = "normal"

\* The claims' reading of a satisfied signature: every assertion names an
\* observed signal whose observed state is the required one.
Satisfied(fault, signal_states) ==
    \A k \in 1..Len(fault.signatures) :
        /\ fault.signatures[k].signal_id \in DOMAIN signal_states
        /\ fault.signatures[k].state = Some(signal_states[fault.signatures[k].signal_id])

AsList(opt) == IF IsNone(opt) THEN <<>> ELSE <<Get(opt)>>

\* The faults the two matchers have returned so far.
ReturnedFaults ==
    {Get(Get(x)) : x \in {y \in {dg_matched, dg_found} : ~IsNone(y) /\ ~IsNone(Get(y))}}

\* C12: when every signature of the configuration is accepted by the matcher
\* exactly when it is satisfied, the matcher returns all the satisfied faults,
\* in declaration order, and not only the first of them.
C12_AllSatisfiedFaults ==
    LET Sat(f) == Satisfied(f, dg_signals)
        agree == \A i \in 1..Len(dg_faults) :
                    matches_fault(dg_faults[i], dg_signals) <=> Sat(dg_faults[i])
    IN agree =>
        /\ (~IsNone(dg_matched) => AsList(Get(dg_matched)) = SelectSeq(dg_faults, Sat))
        /\ (~IsNone(dg_found) => AsList(Get(dg_found)) = SelectSeq(dg_faults, Sat))

\* C13: a fault is matched only if every assertion of its signature names an
\* observed signal whose observed state equals the required state; a fault
\* whose signature names a signal that was not observed is never matched.
C13_MatchNeedsEveryAssertion ==
    /\ \A f \in ReturnedFaults : Satisfied(f, dg_signals)
    /\ (~IsNone(dg_hypothesis) /\ ~IsNone(Get(dg_hypothesis).fault_id) =>
            Satisfied(Get(FaultById(dg_faults, Get(dg_hypothesis).fault_id)), dg_signals))

\* C14: a fault with an empty signature is never accepted silently. What a
\* matcher gives back is the fault itself, and the hypothesis names only its
\* fault_id: neither carries a flag, so such a fault must never be the matched one.
C14_EmptySignatureFlagged ==
    /\ \A f \in ReturnedFaults : Len(f.signatures) > 0
    /\ (~IsNone(dg_hypothesis) /\ ~IsNone(Get(dg_hypothesis).fault_id) =>
            Len(Get(FaultById(dg_faults, Get(dg_hypothesis).fault_id)).signatures) > 0)

\* The hypotheses of all matched faults, as <<fault index, hypothesis index>>.
MatchedIdx == {i \in 1..Len(dg_faults) : matches_fault(dg_faults[i], dg_signals)}
Candidates ==
    UNION {{<<i, k>> : k \in 1..Len(dg_faults[i].hypotheses)} : i \in MatchedIdx}
HypAt(c) == dg_faults[c[1]].hypotheses[c[2]]
LowestRank(c) == \A d \in Candidates : HypAt(c).rank <= HypAt(d).rank

\* The candidates the returned hypothesis was taken from.
Selected ==
    {c \in Candidates :
        /\ Get(dg_hypothesis).fault_id = Some(dg_faults[c[1]].fault_id)
        /\ Get(dg_hypothesis).cause = HypAt(c).cause
        /\ Get(dg_hypothesis).confidence = HypAt(c).confidence}

\* C15: when faults match, the selected hypothesis has the lowest rank number
\* among the hypotheses of all the matched faults taken together.
C15_LowestRankAcrossFaults ==
    (~IsNone(dg_hypothesis) /\ Candidates # {}) =>
        \E c \in Selected : LowestRank(c)

\* C16: a selected hypothesis of the lowest rank number has the highest
\* confidence among the candidates of that rank; and the best hypothesis of a
\* single fault has the highest confidence among that fault's hypotheses of
\* its rank.
C16_TieBrokenByConfidence ==
    /\ (~IsNone(dg_hypothesis) =>
            \A c \in Selected : LowestRank(c) =>
                \A d \in Candidates :
                    HypAt(d).rank = HypAt(c).rank => HypAt(d).confidence <= HypAt(c).confidence)
    /\ (~IsNone(dg_best) /\ ~IsNone(Get(dg_best)) =>
            LET hs == Get(Get(dg_found)).hypotheses
            IN \A k \in 1..Len(hs) :
                  hs[k].rank = Get(Get(dg_best)).rank
                      => hs[k].confidence <= Get(Get(dg_best)).confidence)

Ranks(fault) == [k \in 1..Len(fault.hypotheses) |-> fault.hypotheses[k].rank]
Confidences(F) == UNION {{f.hypotheses[k].confidence : k \in 1..Len(f.hypotheses)} : f \in F}

\* Two faults are matched, their hypotheses are ranked [1,2] and [1,3], and
\* all their confidences are equal.
TwoTiedFaults ==
    /\ Cardinality(MatchedIdx) = 2
    /\ {Ranks(dg_faults[i]) : i \in MatchedIdx} = {<<1, 2>>, <<1, 3>>}
    /\ Cardinality(Confidences({dg_faults[i] : i \in MatchedIdx})) = 1

\* C17: when the two matched faults have hypotheses ranked [1,2] and [1,3] at
\* equal confidence, the hypothesis returned is the rank-1 hypothesis of the
\* one declared first, and generating again returns the same hypothesis.
C17_FirstDeclaredFaultWins ==
    (~IsNone(dg_hypothesis) /\ TwoTiedFaults) =>
        LET first == dg_faults[Least(MatchedIdx)]
        IN /\ Get(dg_hypothesis).fault_id = Some(first.fault_id)
           /\ Get(dg_hypothesis).cause = first.hypotheses[1].cause
           /\ generate_hypothesis(dg_faults, dg_signals) = Get(dg_hypothesis)

\* C17 witness: the fault ranked [1,3] is declared before the fault ranked
\* [1,2], both match, and the hypothesis is the first one's.
C17_Witness ==
    /\ ~IsNone(dg_hypothesis)
    /\ TwoTiedFaults
    /\ Len(dg_faults) = 2
    /\ Ranks(dg_faults[1]) = <<1, 3>>
    /\ Get(dg_hypothesis).fault_id = Some(dg_faults[1].fault_id)

PowerDisconnectWarnings ==
    {"Ensure power is disconnected before internal inspection", "Disconnect power first"}

\* C19: for an absent or unknown fault id, RecommendationGenerator.generate
\* returns exactly one recommendation, a generic inspection with a safety
\* warning to disconnect power.
C19_FallbackRecommendation ==
    (~IsNone(dg_recs) /\ IsNone(FaultById(dg_faults, dg_fault_id))) =>
        /\ Len(Get(dg_recs)) = 1
        /\ Get(dg_recs)[1].action = "inspect"
        /\ Get(dg_recs)[1].safety_warning \in PowerDisconnectWarnings

\* C20: for a known fault, RecommendationGenerator.generate returns one
\* recommendation per recovery step, in the order of the steps, the i-th with
\* the action, target and instruction of the i-th step (the action "inspect"
\* when the step names none).
C20_OneRecommendationPerStep ==
    (~IsNone(dg_recs) /\ ~IsNone(FaultById(dg_faults, dg_fault_id))) =>
        LET steps == Get(FaultById(dg_faults, dg_fault_id)).recovery
            recs == Get(dg_recs)
        IN /\ Len(recs) = Len(steps)
           /\ \A i \in 1..Len(steps) :
                 /\ recs[i].action =
                        (IF IsNone(steps[i].action) THEN "inspect" ELSE Get(steps[i].action))
                 /\ recs[i].target = steps[i].target
                 /\ recs[i].instruction = steps[i].instruction

\* C20 witness: the recommendations of a fault with two different recovery
\* steps have been generated.
C20_Witness ==
    /\ ~IsNone(dg_recs)
    /\ ~IsNone(FaultById(dg_faults, dg_fault_id))
    /\ Len(Get(dg_recs)) = 2
    /\ Get(dg_recs)[1].action = "measure"
    /\ Get(dg_recs)[2].action = "replace"

Loads == {k \in 1..Len(ld_calls) : ld_calls[k].op = "load"}
SameEntries(a, b) == DOMAIN a = DOMAIN b /\ \A id \in DOMAIN a : a[id] = b[id]
KeepsEntries(a, b) == DOMAIN a \subseteq DOMAIN b /\ \A id \in DOMAIN a : a[id] = b[id]

\* C21: between two clears the document of an id is parsed at most once; a
\* load of a cached id returns the cached configuration itself without opening
\* the document and leaves the cache as it is; and no load, of this or another
\* id, successful or failed, removes or replaces an entry.
C21_ParsedOncePerId ==
    /\ \A id \in DOMAIN ld_parsed : ld_parsed[id] <= 1
    /\ \A k \in Loads :
          LET c == ld_calls[k]
          IN /\ KeepsEntries(c.before, c.after)
             /\ (c.id \in DOMAIN c.before =>
                    /\ c.outcome = "returned"
                    /\ c.config = Some(c.before[c.id])
                    /\ ~c.read
                    /\ SameEntries(c.before, c.after))

\* C21 witness: an id was loaded, its document was replaced, another id was
\* loaded, and a second load of the first id returned the first configuration.
C21_Witness ==
    /\ Len(ld_calls) = 3
    /\ ld_calls[1].op = "load" /\ ld_calls[1].read /\ ld_calls[1].outcome = "returned"
    /\ ld_calls[2].op = "load" /\ ld_calls[2].id # ld_calls[1].id
    /\ ld_calls[3].op = "load" /\ ld_calls[3].id = ld_calls[1].id
    /\ ld_calls[3].doc # ld_calls[1].doc
    /\ ld_calls[3].config = ld_calls[1].config

\* C29: a load that raises, for a missing document or for one that does not
\* parse, leaves the cache exactly as it was, with no entry for the id; and a
\* load of an id that is not cached goes by the document as it is now.
C29_FailedLoadLeavesCache ==
    \A k \in Loads :
        LET c == ld_calls[k]
        IN /\ (c.outcome # "returned" =>
                  SameEntries(c.before, c.after) /\ c.id \notin DOMAIN c.after)
           /\ (c.id \notin DOMAIN c.before =>
                  /\ c.outcome = (CASE c.doc = "missing" -> "FileNotFoundError"
                                    [] c.doc = "malformed" -> "ParseError"
                                    [] OTHER -> "returned")
                  /\ c.read = (c.doc # "missing")
                  /\ (c.outcome = "returned" => Get(c.config).version = c.doc))

\* C29 witness: a load failed on a malformed document while another id was
\* cached, and after the document was repaired a load of the same id read it.
C29_Witness ==
    /\ Len(ld_calls) = 3
    /\ ld_calls[1].op = "load" /\ ld_calls[1].outcome = "returned"
    /\ ld_calls[2].op = "load" /\ ld_calls[2].outcome = "ParseError"
    /\ ld_calls[2].id # ld_calls[1].id
    /\ ld_calls[3].op = "load" /\ ld_calls[3].id = ld_calls[2].id
    /\ ld_calls[3].outcome = "returned" /\ ld_calls[3].read

\* A complete configuration of the shared id, saying what the document says.
CompleteConfig(c) ==
    /\ c.equipment_id = SharedId
    /\ c.version = cc_docs[SharedId]
    /\ c.version \in {"v1", "v2"}

\* C22: in every interleaving of threads loading the same uncached id, a
\* caller that gets a configuration gets a complete one equal to what the
\* document says, a caller is refused only because the document is missing or
\* malformed, no cache ever holds a half-built entry, and when all callers are
\* back the process-wide loader holds exactly the entry of that id.
C22_ConcurrentLoad ==
    /\ \A t \in DOMAIN cc_pc :
          cc_pc[t] = "done" =>
             /\ cc_local[t].outcome =
                    (CASE cc_docs[SharedId] = "missing" -> "FileNotFoundError"
                       [] cc_docs[SharedId] = "malformed" -> "ParseError"
                       [] OTHER -> "returned")
             /\ (cc_local[t].outcome = "returned" => CompleteConfig(cc_local[t].config))
    /\ \A l \in 1..Len(cc_caches) :
          \A id \in DOMAIN cc_caches[l] : CompleteConfig(cc_caches[l][id])
    /\ ((DOMAIN cc_pc # {} /\ \A t \in DOMAIN cc_pc : cc_pc[t] = "done") =>
          /\ ~IsNone(cc_loader)
          /\ DOMAIN cc_caches[Get(cc_loader)] =
                (IF cc_docs[SharedId] \in {"v1", "v2"} THEN {SharedId} ELSE {}))

\* C22 witness: two threads raced through the creation of the loader and
\* through the parsing, each built its own configuration, and both are back.
C22_Witness ==
    /\ DOMAIN cc_pc # {}
    /\ \A t \in DOMAIN cc_pc : cc_pc[t] = "done" /\ cc_local[t].outcome = "returned"
    /\ Len(cc_caches) >= 2
    /\ cc_objs >= 2
    /\ \E t \in DOMAIN cc_pc : cc_local[t].loader # Get(cc_loader)

\* C28: for every interpreted measurement the deviation is
\* (value - nominal) / nominal * 100 when the nominal is known and non-zero,
\* and is None exactly when the nominal is unknown or zero, with or without a
\* threshold config for the test point.
C28_DeviationFromNominal ==
    ~IsNone(int_out) =>
        \A i \in 1..Len(Get(int_out).states) :
            LET st == Get(int_out).states[i]
                nominal == int_meas[i].nominal_value
            IN IF IsNone(nominal) \/ Get(nominal) = 0
               THEN IsNone(st.deviation_percent)
               ELSE /\ ~IsNone(st.deviation_percent)
                    /\ Get(st.deviation_percent).num = (int_meas[i].value - Get(nominal)) * 100
                    /\ Get(st.deviation_percent).den = Get(nominal)

PriorityRank(p) == CASE p = "medium" -> 1 [] p = "high" -> 2 [] p = "critical" -> 3

\* The priority of the recommendation a session's report carries.
DeliveredPriority == Get(Get(delivered).recommendations)[1].priority

\* C30: the recommendation is critical iff the status is "failed" or the
\* confidence is at least 0.8, otherwise high iff the status is "degraded" or
\* the confidence is at least 0.5, otherwise medium; and with the status
\* unchanged no higher confidence gets a lower priority.
C30_PriorityRule ==
    (outcome = "returned" /\ ~IsNone(delivered) /\ ~IsNone(Get(delivered).recommendations)) =>
        LET st == state.overall_status
            c == Get(state.hypothesis).confidence
            crit == st = "failed" \/ c >= 80
            high == ~crit /\ (st = "degraded" \/ c >= 50)
        IN /\ DeliveredPriority \in {"critical", "high", "medium"}
           /\ (DeliveredPriority = "critical") <=> crit
           /\ (DeliveredPriority = "high") <=> high
           /\ (DeliveredPriority = "medium") <=> (~crit /\ ~high)
           /\ \A lower \in {x \in ConfidenceLevels : x <= c} :
                 PriorityRank(PriorityOf(st, lower)) <= PriorityRank(DeliveredPriority)

\* C30 witness: a session of normal status whose confidence is exactly 0.8
\* was given a critical recommendation.
C30_Witness ==
    /\ outcome = "returned"
    /\ ~IsNone(delivered)
    /\ ~IsNone(Get(delivered).recommendations)
    /\ state.overall_status = "normal"
    /\ Get(state.hypothesis).confidence = 80
    /\ DeliveredPriority = "critical"

\* C25: whatever happens to the evidence collaborators (the store cannot be
\* opened for any reason, the static rules file is missing), the
\* retrieve_evidence stage does not raise, it leaves empty evidence for the
\* part that failed, and a session that reached the stage ends in a full report.
C25_RetrievalNeverFailsPipeline ==
    /\ raised_by # "retrieve_evidence"
    /\ ("retrieve_evidence" \in Elems(state.node_history) =>
            /\ (rag_env # "ok" => state.retrieved_evidence.documents = <<>>)
            /\ (rules_file = "missing" => state.retrieved_evidence.rules = <<>>))
    /\ ((Finished /\ "retrieve_evidence" \in Elems(executed)) =>
            /\ outcome = "returned"
            /\ ~IsNone(delivered)
            /\ IsFullReport(Get(delivered)))

\* The signal patterns retrieve_evidence builds from a state (lines 243-246).
PatternsOf(s) ==
    [i \in 1..Len(s.signal_states) |->
        [test_point_id |-> s.signal_states[i].test_point_id,
         state |-> s.signal_states[i].semantic_state]]

\* C26: when the RAG repository is unavailable, the retrieved evidence still
\* holds the static rules of the equipment model that match the observed
\* signal patterns, and those are the rules analyze_fault counts as evaluated.
C26_StaticRulesFallback ==
    (rag_env # "ok" /\ "retrieve_evidence" \in Elems(state.node_history)) =>
        /\ state.retrieved_evidence.rules =
              find_matching_rules(rules_file, state.equipment_model, PatternsOf(state))
        /\ (Len(state.reasoning_chain) >= 2 =>
              state.reasoning_chain[2].n_rules =
                 Len(find_matching_rules(rules_file, state.equipment_model, PatternsOf(state))))

\* The measurements of the session can be built into Measurement objects.
WellFormedMeasurements ==
    \A i \in 1..Len(state.raw_measurements) : ~ConstructionRaises(state.raw_measurements[i])

\* C23: when the configuration document of the equipment is missing or
\* malformed, a valid session does not abort: it ends in a full report in
\* which every signal state is "unknown" and the hypothesis is the no-match one.
C23_MissingConfigDegrades ==
    (/\ state.equipment_model \in DOMAIN ld_docs
     /\ ld_docs[state.equipment_model] \in {"missing", "malformed"}
     /\ ValidInput
     /\ WellFormedMeasurements
     /\ rag_env # "init_fails"
     /\ Finished) =>
        /\ outcome = "returned"
        /\ ~IsNone(delivered)
        /\ IsFullReport(Get(delivered))
        /\ \A i \in 1..Len(state.signal_states) :
              state.signal_states[i].semantic_state = "unknown"
        /\ Get(Get(delivered).diagnosis).primary_cause = NoMatchCause
        /\ Get(Get(delivered).diagnosis).confidence_score = 0

\* A delivered report without the field that names the session.
WithoutSessionId(d) ==
    IF IsNone(d) THEN None ELSE Some([Get(d) EXCEPT !.session_id = None])

BothFinished == outcome \in {"returned", "raised"} /\ b_outcome \in {"returned", "raised"}

AloneReport(s0) ==
    IF s0.equipment_model = "" \/ Len(s0.raw_measurements) = 0
    THEN [outcome |-> "raised", delivered |-> None]
    ELSE LET s1 == validate_input(s0).out
             s2 == interpret_signals(s1).out
             s3 == retrieve_evidence(s2, rag_env, rules_file).out
             s4 == analyze_fault(s3, Evaluate(engine, s3.retrieved_evidence.rules)).out
             s5 == generate_recommendations(s4).out
             s6 == generate_response(s5).out
         IN [outcome |-> "returned", delivered |-> Some(s6.response)]

\* The state a caller passed to invoke, recovered from a later state.
CallerState(s) == [NewAgentState(s.equipment_model, s.raw_measurements) EXCEPT
                        !.session_id = s.session_id]

ReportsAsAlone ==
    /\ (outcome \in {"returned", "raised"} =>
            [outcome |-> outcome, delivered |-> delivered] = AloneReport(CallerState(state)))
    /\ (b_outcome \in {"returned", "raised"} =>
            [outcome |-> b_outcome, delivered |-> b_delivered] = AloneReport(CallerState(b_state)))

\* C27: in every interleaving of two sessions each report equals the report
\* of the session run alone, and no session reads a variable the other has
\* written: the tracing client a session uses is the one it configured.
C27_SessionsShareNothing ==
    /\ ReportsAsAlone
    /\ \A s \in DOMAIN ls_held : ~IsNone(ls_held[s]) => ls_held[s] = Some(s)

====
